---- MODULE Spec2Model ----
(***************************************************************************)
(* Survey platform: response submission, eligibility, answer validation    *)
(* and statistics.                                                         *)
(*                                                                         *)
(* Two implementations live in the repository and both are modelled:       *)
(*   - the SQL service layer (app/services, app/repositories), whose       *)
(*     handlers commit to the database several times per call; the state   *)
(*     between two commits is visible to the other handlers, so a handler  *)
(*     is a sequence of steps, one per commit (reads up to a commit form   *)
(*     one step);                                                          *)
(*   - the CSV-backed layered implementation (application/,                *)
(*     infrastructure/persistence), which appends one row per answer.      *)
(*                                                                         *)
(* Conventions for Python values:                                          *)
(*   None and "" of a text column are both NoText (the code only tests     *)
(*   truthiness of text_answer / file_url / respondent_email);             *)
(*   None and [] of json_answer are both <<>> (truthiness only);           *)
(*   None of number_answer is NoNumber (the code tests "is not None", so   *)
(*   0 is a value); None of respondent_id, deadline, max_responses is 0    *)
(*   (the code tests truthiness, ids start at 1).                          *)
(***************************************************************************)
EXTENDS Integers, Sequences, FiniteSets, TLC

\* ------------------------------------------------------------------ bounds
MaxHandlers == 2
MaxResponseId == 2
MaxTime == 2
MaxLimit == 1
MaxCsvRows == 3
MaxCsvQuestions == 2
MaxCsvSurveys == 2
MaxCsvSurveyRows == 2
\* the largest question id the question requests allocate
MaxQuestionId == 4

\* --------------------------------------------------------------- constants
NoText == ""
NoNumber == 0 - 1
NoUser == 0
OwnerId == 1
OtherUser == 2

Handlers == 1..MaxHandlers
Users == {OwnerId, OtherUser}

VARIABLES
  forms,          \* table forms: survey id -> row
  questions,      \* table questions: question id -> row
  responses,      \* table form_responses: response id -> row
  answers,        \* table answers: response id -> its rows in insertion order
  nextResponseId, \* next primary key of form_responses
  now,            \* datetime.utcnow()
  pc,             \* position of each submit_response handler
  args,           \* arguments of each submit_response handler
  rid,            \* local variable `response` (its id) of each handler, 0 before create
  idx,            \* index of the next answer the handler writes
  reply,          \* reply of the operation that completed last
  accepted,       \* history: the respondent identities a submission was accepted from
  csv_surveys,    \* surveys.csv: the ids of its rows
  csv_questions,  \* questions.csv: its rows in file order
  csv_responses,  \* responses.csv: its rows in file order
  csv_job         \* the call of application ResponseService.submit_response in its loop

vars == <<forms, questions, responses, answers, nextResponseId, now,
          pc, args, rid, idx, reply, accepted,
          csv_surveys, csv_questions, csv_responses, csv_job>>

db == <<forms, questions, responses, answers, nextResponseId>>

csv == <<csv_surveys, csv_questions, csv_responses, csv_job>>

\* everything the SQL service layer holds
sql == <<db, now, pc, args, rid, idx, accepted>>

\* ------------------------------------------------------------- helpers
SeqToSet(s) == {s[i] : i \in 1..Len(s)}

DigitStr == <<"0", "1", "2", "3", "4", "5", "6", "7", "8", "9">>

RECURSIVE IntToStr(_)
\* Python str(n) for n >= 0
IntToStr(n) ==
  IF n < 10 THEN DigitStr[n + 1]
  ELSE IntToStr(n \div 10) \o DigitStr[(n % 10) + 1]

RECURSIVE JoinQuoted(_)
JoinQuoted(l) ==
  IF Len(l) = 1 THEN "'" \o l[1] \o "'"
  ELSE "'" \o l[1] \o "', " \o JoinQuoted(Tail(l))

\* Python str(list_of_str), e.g. str(["A", "B"]) = "['A', 'B']"
StrOfList(l) == IF l = <<>> THEN "[]" ELSE "[" \o JoinQuoted(l) \o "]"

\* ----------------------------------------------------------- SQL: reads
SurveyExists(fs, sid) == sid \in DOMAIN fs

\* ResponseRepository.count_survey_responses
CountSurveyResponses(rs, sid) ==
  Cardinality({r \in DOMAIN rs : rs[r].form_id = sid})

\* the email branch is missing: an anonymous respondent is never found
HasUserRespondedIdOnly(rs, sid, user_id, email) ==
  user_id # NoUser
  /\ \E r \in DOMAIN rs : rs[r].form_id = sid /\ rs[r].respondent_id = user_id

\* ResponseRepository.has_user_responded
HasUserResponded(rs, sid, user_id, email) ==
  IF user_id # NoUser
    THEN \E r \in DOMAIN rs : rs[r].form_id = sid /\ rs[r].respondent_id = user_id
  ELSE IF email # NoText
    THEN \E r \in DOMAIN rs : rs[r].form_id = sid /\ rs[r].respondent_email = email
  ELSE FALSE

\* SurveyRepository.is_owner (None for a missing survey is falsy)
\* an is_owner that only looks whether the survey exists
IsOwnerOfAny(fs, sid, user_id) == SurveyExists(fs, sid)

IsOwner(fs, sid, user_id) == SurveyExists(fs, sid) /\ fs[sid].owner_id = user_id

\* Form.questions: the questions of a survey ordered by Question.order
\* (rows of equal order come in primary-key order)
SurveyQuestions(qs, sid) ==
  LET ids == {q \in DOMAIN qs : qs[q].form_id = sid}
      Before(a, b) == qs[a].order < qs[b].order
                      \/ (qs[a].order = qs[b].order /\ a < b)
      Rank(q) == Cardinality({p \in ids : Before(p, q)}) + 1
  IN [i \in 1..Cardinality(ids) |-> CHOOSE q \in ids : Rank(q) = i]

\* ------------------------------------------------ SQL: eligibility checks
\* ResponseService._get_and_validate_survey
\* a limit check that lets the submission at the limit through
GetAndValidateSurveyOverLimit(fs, rs, t, sid) ==
  IF ~SurveyExists(fs, sid) THEN "not_found"
  ELSE IF ~fs[sid].is_active THEN "inactive"
  ELSE IF ~fs[sid].accepts_responses THEN "not_accepting"
  ELSE IF fs[sid].deadline # 0 /\ t > fs[sid].deadline THEN "deadline_passed"
  ELSE IF fs[sid].max_responses # 0
          /\ CountSurveyResponses(rs, sid) > fs[sid].max_responses
    THEN "limit_reached"
  ELSE "ok"

GetAndValidateSurvey(fs, rs, t, sid) ==
  IF ~SurveyExists(fs, sid) THEN "not_found"
  ELSE IF ~fs[sid].is_active THEN "inactive"
  ELSE IF ~fs[sid].accepts_responses THEN "not_accepting"
  ELSE IF fs[sid].deadline # 0 /\ t > fs[sid].deadline THEN "deadline_passed"
  ELSE IF fs[sid].max_responses # 0
          /\ CountSurveyResponses(rs, sid) >= fs[sid].max_responses
    THEN "limit_reached"
  ELSE "ok"

\* ResponseService._check_duplicate_response
CheckDuplicateResponse(rs, sid, user_id, email) ==
  IF HasUserResponded(rs, sid, user_id, email) THEN "duplicate" ELSE "ok"

\* ResponseService.submit_response, lines 30-42: everything before the
\* answers are looked at
SubmitEligibility(fs, rs, t, a) ==
  LET v == GetAndValidateSurvey(fs, rs, t, a.survey_id)
  IN IF v # "ok" THEN v
     ELSE IF fs[a.survey_id].requires_login /\ a.respondent_id = NoUser
       THEN "login_required"
     ELSE IF fs[a.survey_id].limit_one_response
       THEN CheckDuplicateResponse(rs, a.survey_id, a.respondent_id, a.respondent_email)
     ELSE "ok"

\* ------------------------------------------------- SQL: answer validation
\* float(text) succeeds, for the text values the inputs use
ParsesAsFloat(t) == t \in {"5", "4"}

TextTypes == {"short_text", "long_text", "email"}

\* ResponseService._validate_answer_type
ValidateAnswerType(q, a) ==
  IF q.question_type \in TextTypes
    THEN IF a.number_answer # NoNumber \/ a.json_answer # <<>>
           THEN "type_mismatch" ELSE "ok"
  ELSE IF q.question_type = "number"
    THEN IF a.number_answer = NoNumber /\ a.text_answer # NoText
            /\ ~ParsesAsFloat(a.text_answer)
           THEN "not_a_number" ELSE "ok"
  ELSE IF q.question_type \in {"multiple_choice", "dropdown"}
    THEN IF q.options # <<>>
            /\ (a.text_answer # NoText \/ a.json_answer # <<>>)
            /\ (a.text_answer = NoText \/ a.text_answer \notin SeqToSet(q.options))
           THEN "invalid_option" ELSE "ok"
  ELSE IF q.question_type = "checkbox"
    THEN IF a.json_answer = <<>> /\ a.text_answer # NoText
           THEN "needs_multiple" ELSE "ok"
  ELSE "ok"

\* one iteration of the loop of ResponseService._validate_answers
ValidateAnswer(qs, qids, a) ==
  IF a.question_id = 0 \/ a.question_id \notin qids THEN "invalid_question"
  ELSE LET q == qs[a.question_id]
           has_answer == a.text_answer # NoText \/ a.number_answer # NoNumber
                         \/ a.json_answer # <<>> \/ a.file_url # NoText
       IN IF q.required /\ ~has_answer THEN "required"
          ELSE ValidateAnswerType(q, a)

RECURSIVE ValidateAnswersFrom(_, _, _, _)
ValidateAnswersFrom(qs, qids, al, i) ==
  IF i > Len(al) THEN "ok"
  ELSE LET v == ValidateAnswer(qs, qids, al[i])
       IN IF v # "ok" THEN v ELSE ValidateAnswersFrom(qs, qids, al, i + 1)

\* ResponseService._validate_answers: the first failure in request order
ValidateAnswers(qs, sid, al) ==
  ValidateAnswersFrom(qs, {q \in DOMAIN qs : qs[q].form_id = sid}, al, 1)

\* ------------------------------------------------------ SQL: statistics
\* the rows of table answers, each named by <<response id, position>>
AllRows(as) == UNION {{<<r, i>> : i \in 1..Len(as[r])} : r \in DOMAIN as}

\* query(Answer).filter(Answer.question_id == q)
AnswerRows(as, q) == {x \in AllRows(as) : as[x[1]][x[2]].question_id = q}

\* the value an answer row is counted under in
\* ResponseRepository.get_survey_statistics (lines 144-151); "" is None
AnswerValue(a) ==
  IF a.text_answer # NoText THEN a.text_answer
  ELSE IF a.number_answer # NoNumber THEN IntToStr(a.number_answer)
  ELSE IF a.json_answer # <<>> THEN StrOfList(a.json_answer)
  ELSE ""

\* lines 128-158: the entry of one question
QuestionStat(qs, as, q) ==
  LET rows == AnswerRows(as, q)
      keys == {AnswerValue(as[x[1]][x[2]]) : x \in rows} \ {""}
  IN [id |-> q,
      type |-> qs[q].question_type,
      required |-> qs[q].required,
      answer_distribution |->
        [k \in keys |-> Cardinality({x \in rows : AnswerValue(as[x[1]][x[2]]) = k})]]

\* ResponseRepository.get_survey_statistics
RepoSurveyStatistics(qs, rs, as, sid) ==
  LET ordered == SurveyQuestions(qs, sid)
  IN [total_responses |-> CountSurveyResponses(rs, sid),
      questions |-> [i \in 1..Len(ordered) |-> QuestionStat(qs, as, ordered[i])]]

ChoiceTypes == {"multiple_choice", "checkbox", "dropdown"}

\* app/api/surveys_refactored.py, SurveyService._calculate_question_statistics:
\* the key of one answer row, "" when the row is not counted
RefactoredAnswerKey(qtype, a) ==
  IF qtype \in ChoiceTypes THEN a.text_answer
  ELSE IF qtype = "scale"
    THEN IF a.number_answer # NoNumber /\ a.number_answer # 0
           THEN IntToStr(a.number_answer) ELSE a.text_answer
  ELSE ""

\* a json list taken as a dict key raises TypeError (unhashable list)
RefactoredRaises(qs, as, sid) ==
  \E x \in AllRows(as) :
    LET a == as[x[1]][x[2]]
    IN /\ a.question_id \in DOMAIN qs
       /\ qs[a.question_id].form_id = sid
       /\ qs[a.question_id].question_type \in ChoiceTypes
       /\ a.json_answer # <<>>

RefactoredQuestionStat(qs, as, q) ==
  LET rows == AnswerRows(as, q)
      keys == {RefactoredAnswerKey(qs[q].question_type, as[x[1]][x[2]]) : x \in rows} \ {""}
  IN [question_id |-> q,
      response_count |-> Cardinality(rows),
      answer_distribution |->
        [k \in keys |-> Cardinality({x \in rows :
             RefactoredAnswerKey(qs[q].question_type, as[x[1]][x[2]]) = k})]]

\* app/api/surveys_refactored.py, SurveyService.calculate_survey_statistics
CalculateSurveyStatistics(qs, rs, as, sid) ==
  IF CountSurveyResponses(rs, sid) = 0
    THEN [total_responses |-> 0, questions |-> <<>>]
  ELSE LET ordered == SurveyQuestions(qs, sid)
       IN [total_responses |-> CountSurveyResponses(rs, sid),
           questions |-> [i \in 1..Len(ordered) |->
                            RefactoredQuestionStat(qs, as, ordered[i])]]

\* app/api/responses.py get_form_statistics, lines 164-172: every option of a
\* json list adds one to its own count
OptionCounts(as, q) ==
  LET rows == {x \in AnswerRows(as, q) : as[x[1]][x[2]].json_answer # <<>>}
      selected(x) == as[x[1]][x[2]].json_answer
      options == UNION {SeqToSet(selected(x)) : x \in rows}
      times(x, o) == Cardinality({i \in 1..Len(selected(x)) : selected(x)[i] = o})
      RECURSIVE Total(_, _)
      Total(S, o) == IF S = {} THEN 0
                     ELSE LET x == CHOOSE y \in S : TRUE
                          IN times(x, o) + Total(S \ {x}, o)
  IN [o \in options |-> Total(rows, o)]

\* lines 150-182: the entry of one question; the average of a scale question
\* is given as the sum and the number of its values
FormQuestionStat(qs, as, q) ==
  LET rows == AnswerRows(as, q)
      base == [question_id |-> q, question_type |-> qs[q].question_type,
               total_answers |-> Cardinality(rows), required |-> qs[q].required]
      values == {x \in rows : as[x[1]][x[2]].number_answer # NoNumber}
      number(x) == as[x[1]][x[2]].number_answer
      RECURSIVE Sum(_)
      Sum(S) == IF S = {} THEN 0
                ELSE LET x == CHOOSE y \in S : TRUE IN number(x) + Sum(S \ {x})
  IN IF qs[q].question_type \in ChoiceTypes
       THEN [option_counts |-> OptionCounts(as, q)] @@ base
     ELSE IF qs[q].question_type = "scale" /\ values # {}
       THEN [sum |-> Sum(values), count |-> Cardinality(values),
             min |-> CHOOSE m \in {number(x) : x \in values} :
                       \A x \in values : m <= number(x),
             max |-> CHOOSE m \in {number(x) : x \in values} :
                       \A x \in values : m >= number(x)] @@ base
     ELSE base

\* app/api/responses.py get_form_statistics, lines 145-193
FormStatistics(qs, rs, as, sid) ==
  LET ordered == SurveyQuestions(qs, sid)
  IN [total_responses |-> CountSurveyResponses(rs, sid),
      questions |-> [i \in 1..Len(ordered) |-> FormQuestionStat(qs, as, ordered[i])]]

\* ResponseRepository.get_survey_responses: the rows of a survey
SurveyResponses(rs, sid) == {r \in DOMAIN rs : rs[r].form_id = sid}

\* ------------------------------------------------------------ SQL: inputs
Ans(q, t, n) ==
  [question_id |-> q, text_answer |-> t, number_answer |-> n,
   json_answer |-> <<>>, file_url |-> NoText, extra |-> FALSE]

\* an answer dict with a key add_answer does not accept
AnsExtra(q, t, n) == [Ans(q, t, n) EXCEPT !.extra = TRUE]

\* the answer to a checkbox question: the selected options as a json list
AnsJson(q, l) == [Ans(q, NoText, NoNumber) EXCEPT !.json_answer = l]

\* answer lists to the checkbox question of CheckboxQuestions
CheckboxAnswerInputs ==
  { <<AnsJson(1, <<"a", "b">>)>>,
    <<AnsJson(1, <<"b">>)>>,
    <<Ans(1, "a", NoNumber)>>,
    <<>> }

\* answer lists to the questions of ValidateQuestions: valid ones, ones that
\* leave out the required question, and ones with one or two invalid answers
ValidateAnswerInputs ==
  { <<Ans(1, "x", NoNumber)>>,
    <<>>,
    <<Ans(2, NoText, 5)>>,
    <<Ans(1, NoText, NoNumber)>>,
    <<Ans(1, "x", NoNumber), Ans(2, "x", NoNumber)>>,
    <<Ans(1, NoText, 5)>>,
    <<Ans(1, "x", NoNumber), Ans(3, "a", NoNumber)>>,
    <<Ans(1, "x", NoNumber), Ans(3, "z", NoNumber)>>,
    <<Ans(1, "x", NoNumber), AnsJson(3, <<"a">>)>>,
    <<Ans(1, "x", NoNumber), AnsJson(4, <<"a">>)>>,
    <<Ans(1, "x", NoNumber), AnsJson(4, <<"a", "z">>)>>,
    <<Ans(1, "x", NoNumber), Ans(4, "a", NoNumber)>>,
    <<Ans(3, "z", NoNumber), Ans(1, NoText, NoNumber)>>,
    <<Ans(1, NoText, NoNumber), Ans(3, "z", NoNumber)>> }

\* question_data of add_question: the fields of schemas.QuestionCreate but order
QuestionDataInputs ==
  { [question_type |-> "short_text", required |-> TRUE, options |-> <<>>],
    [question_type |-> "scale", required |-> FALSE, options |-> <<>>] }

\* the answers of the submissions whose responses are read and updated
StoredAnswerInputs == { <<Ans(1, "x", NoNumber)>> }

\* the answers of update_response: valid ones, one that leaves the required
\* question empty, and one with a dict add_answer raises for
UpdateAnswerInputs ==
  { <<Ans(1, "y", NoNumber), Ans(2, NoText, 5)>>,
    <<Ans(1, NoText, NoNumber)>>,
    <<AnsExtra(1, "y", NoNumber)>> }

\* survey ids of the owner-only requests: the survey, and no survey
OwnerSurveyIdInputs == {1, 2}

AnswerListInputs ==
  { <<Ans(1, "x", NoNumber), Ans(2, NoText, 5)>>,
    <<Ans(1, "x", NoNumber), Ans(9, "x", NoNumber)>>,
    <<Ans(1, NoText, NoNumber)>>,
    <<Ans(1, "x", NoNumber), AnsExtra(2, NoText, 4)>> }

RespondentInputs ==
  { [respondent_id |-> OtherUser, respondent_email |-> NoText],
    [respondent_id |-> NoUser, respondent_email |-> "e1"],
    [respondent_id |-> NoUser, respondent_email |-> NoText] }

SurveyIdInputs == {1}

\* the fields of schemas.FormUpdate that the eligibility checks read
UpdateInputs ==
  [field : {"is_active", "accepts_responses", "requires_login", "limit_one_response"},
   value : BOOLEAN]

\* the updates of the one-response flag
RaceUpdateInputs == {u \in UpdateInputs : u.field = "limit_one_response"}

NoArgs ==
  [survey_id |-> 0, respondent_id |-> NoUser, respondent_email |-> NoText,
   answers |-> <<>>]

NoReply == [op |-> "none"]

\* ------------------------------------------ CSV implementation: reads
\* A str of the CSV implementation is a sequence of characters, each a
\* one-character string.  SuperscriptTwo stands for the character U+00B2, a
\* digit for str.isdigit() that int() does not accept.
SuperscriptTwo == "^2"

AsciiDigits == SeqToSet(DigitStr)

\* str.isdigit(): not empty and every character a digit
IsDigit(a) ==
  a # <<>> /\ \A i \in 1..Len(a) : a[i] \in AsciiDigits \cup {SuperscriptTwo}

\* int(a) raises ValueError, for a str that passed isdigit()
IntRaises(a) == \E i \in 1..Len(a) : a[i] \notin AsciiDigits

RECURSIVE IntOf(_)
\* int(a) for a str of ASCII digits
IntOf(a) ==
  IF a = <<>> THEN 0
  ELSE 10 * IntOf(SubSeq(a, 1, Len(a) - 1))
       + ((CHOOSE d \in 1..10 : DigitStr[d] = a[Len(a)]) - 1)

RECURSIVE SumSeq(_)
\* sum(ratings)
SumSeq(l) == IF l = <<>> THEN 0 ELSE Head(l) + SumSeq(Tail(l))

\* the quotient is cut after two decimals instead of rounded
Round2Floor(total, n) == (100 * total) \div n

\* round(total / n, 2) in hundredths.  A quotient exactly half way between
\* two hundredths needs n to be a multiple of 8; it rounds to the even one.
Round2(total, n) ==
  LET q == (100 * total) \div n
      r == (100 * total) % n
  IN IF 2 * r > n THEN q + 1
     ELSE IF 2 * r < n THEN q
     ELSE IF q % 2 = 0 THEN q ELSE q + 1

\* CsvSurveyRepository.find_questions_by_survey_id
FindQuestionsBySurveyId(qrows, sid) == SelectSeq(qrows, LAMBDA q : q.survey_id = sid)

\* a find_survey_by_id that finds a survey whatever the id
FindSurveyByIdAny(surveys, sid) == TRUE

\* CsvSurveyRepository.find_survey_by_id returns a survey
FindSurveyById(surveys, sid) == sid \in surveys

\* the characters carriage return and line feed
CR == "CR"
LF == "LF"

\* the separator of the options column of questions.csv
Pipe == "|"

\* Question.options when no option is given (None)
NoOptions == <<>>

\* `not text or not text.strip()`
IsBlank(text) == \A i \in 1..Len(text) : text[i] \in {" ", CR, LF}

\* Question.__post_init__ accepting one option as enough for a choice question
QuestionRaisesUnderOne(text, question_type, options) ==
  \/ IsBlank(text)
  \/ question_type = "choice" /\ Len(options) < 1

\* Question.__post_init__ raises ValueError (id and survey_id are never empty)
QuestionRaises(text, question_type, options) ==
  \/ IsBlank(text)
  \/ question_type = "choice" /\ (options = NoOptions \/ Len(options) < 2)

RECURSIVE JoinOptions(_)
\* "|".join(options)
JoinOptions(options) ==
  IF options = <<>> THEN <<>>
  ELSE IF Len(options) = 1 THEN options[1]
  ELSE options[1] \o <<Pipe>> \o JoinOptions(Tail(options))

RECURSIVE SplitOptions(_)
\* options_str.split("|")
SplitOptions(field) ==
  IF \A i \in 1..Len(field) : field[i] # Pipe THEN <<field>>
  ELSE LET k == CHOOSE i \in 1..Len(field) :
                  field[i] = Pipe /\ \A j \in 1..(i - 1) : field[j] # Pipe
       IN <<SubSeq(field, 1, k - 1)>> \o SplitOptions(SubSeq(field, k + 1, Len(field)))

\* Question.to_dict: the options column
OptionsToDict(options) == IF options # NoOptions THEN JoinOptions(options) ELSE <<>>

\* Question.from_dict: the options of a row
OptionsFromDict(field) == IF field # <<>> THEN SplitOptions(field) ELSE NoOptions

RECURSIVE ReadField(_)
\* a field as csv.DictReader yields it: the files are written with newline=""
\* and read without it (csv_response_repository.py lines 42 and 75), so on
\* reading a carriage return, alone or before a line feed, becomes a line feed
ReadField(a) ==
  IF a = <<>> THEN <<>>
  ELSE IF Head(a) = CR
    THEN IF Len(a) >= 2 /\ a[2] = LF THEN <<LF>> \o ReadField(Tail(Tail(a)))
         ELSE <<LF>> \o ReadField(Tail(a))
  ELSE <<Head(a)>> \o ReadField(Tail(a))

\* the rows of responses.csv as the reader yields them
ReadRows(rows) ==
  [i \in 1..Len(rows) |-> [rows[i] EXCEPT !.answer = ReadField(@)]]

\* collections.Counter of a list, as a dict: each value that occurs, with the
\* number of its occurrences
Counter(l) ==
  [a \in SeqToSet(l) |-> Cardinality({i \in 1..Len(l) : l[i] = a})]

\* Question.from_dict of a row of questions.csv as the reader yields it
QuestionFromDict(row) ==
  [id |-> row.id, survey_id |-> row.survey_id, text |-> ReadField(row.text),
   question_type |-> row.question_type,
   options |-> OptionsFromDict(ReadField(row.options))]

\* CsvSurveyRepository.find_survey_by_id of a stored survey: its questions
SurveyQuestionEntities(qrows, sid) ==
  LET found == FindQuestionsBySurveyId(qrows, sid)
  IN [i \in 1..Len(found) |-> QuestionFromDict(found[i])]

\* Question.from_dict raises for a row of the survey
FindSurveyRaises(qrows, sid) ==
  \E i \in 1..Len(qrows) :
    /\ qrows[i].survey_id = sid
    /\ LET q == QuestionFromDict(qrows[i])
       IN QuestionRaises(q.text, q.question_type, q.options)

\* CsvResponseRepository.find_by_question_id
FindByQuestionId(rows, qid) ==
  SelectSeq(ReadRows(rows), LAMBDA r : r.question_id = qid)

\* application ResponseService.get_survey_results, lines 72-98: the entry of
\* one question; `key` is the key of the entry in the results dict
QuestionResult(q, rows) ==
  LET found == FindByQuestionId(rows, q.id)
      answer_list == [i \in 1..Len(found) |-> found[i].answer]
      digit_answers == SelectSeq(answer_list, IsDigit)
      ratings == [i \in 1..Len(digit_answers) |-> IntOf(digit_answers[i])]
  IN IF q.question_type = "rating"
       THEN [key |-> q.id, type |-> "rating", count |-> Len(ratings),
             average |-> IF ratings # <<>> THEN Round2(SumSeq(ratings), Len(ratings))
                         ELSE 0]
     ELSE IF q.question_type = "choice"
       THEN [key |-> q.id, type |-> "choice", count |-> Len(answer_list),
             distribution |-> Counter(answer_list)]
     ELSE [key |-> q.id, type |-> q.question_type, count |-> Len(answer_list),
           answers |-> answer_list]

\* line 76 raises ValueError: an answer to a rating question passes isdigit()
\* and int() rejects it
ResultsRaise(qrows, rows, sid) ==
  \E i \in 1..Len(qrows) :
    /\ qrows[i].survey_id = sid
    /\ qrows[i].question_type = "rating"
    /\ \E j \in 1..Len(rows) :
         /\ rows[j].question_id = qrows[i].id
         /\ IsDigit(rows[j].answer)
         /\ IntRaises(rows[j].answer)

\* application ResponseService.get_survey_results for a survey that exists:
\* the entries in the order of the survey's questions
SurveyResults(qrows, rows, sid) ==
  LET qs == FindQuestionsBySurveyId(qrows, sid)
  IN [i \in 1..Len(qs) |-> QuestionResult(qs[i], rows)]

\* ----------------------------------------- CSV implementation: inputs
CsvRow(sid, q, a, who) ==
  [survey_id |-> sid, question_id |-> q, answer |-> a, respondent_id |-> who]

CsvInitQuestions ==
  << [id |-> "q1", survey_id |-> "s1", question_type |-> "rating"],
     [id |-> "q2", survey_id |-> "s1", question_type |-> "choice"],
     [id |-> "q3", survey_id |-> "s1", question_type |-> "text"] >>

\* the answers of tests/test_scenarios.py, TestScenario03 (lines 170-181);
\* A, B, C stand for the three options of its choice question
ScenarioAnswers ==
  << <<"5", "A">>, <<"4", "A">>, <<"5", "B">>, <<"3", "A">>, <<"4", "C">>,
     <<"5", "B">>, <<"4", "A">>, <<"5", "C">>, <<"3", "B">>, <<"4", "A">> >>

\* responses.csv after the ten submissions of that test
ScenarioRows ==
  [i \in 1..(2 * Len(ScenarioAnswers)) |->
     IF i % 2 = 1
       THEN CsvRow("s1", "q1", <<ScenarioAnswers[(i + 1) \div 2][1]>>, "scenario")
       ELSE CsvRow("s1", "q2", <<ScenarioAnswers[i \div 2][2]>>, "scenario")]

\* the answers dict of a submission, as its items in dict order
CsvAnswerInputs ==
  { << <<"q1", <<"5">>>> >>,
    << <<"q1", <<"4">>>> >>,
    << <<"q1", <<"4", ".", "5">>>> >>,
    << <<"q1", <<"-", "1">>>> >>,
    << <<"q1", <<"x">>>> >>,
    << <<"q1", <<SuperscriptTwo>>>> >>,
    << <<"q1", <<"5">>>>, <<"q2", <<"A">>>> >>,
    << <<"q2", <<"B">>>>, <<"q3", <<"o", "k">>>> >>,
    << >> }

CsvSurveyIdInputs == {"s1", "s9"}

\* survey ids of the requests when a second survey can be created
CsvManySurveyIdInputs == {"s1", "s2", "s9"}

\* the text of a question, or the title or description of a survey
CsvTextFieldInputs == {<<"t">>, <<" ">>}

\* the options argument of add_question: None, or a list
CsvOptionsInputs ==
  { [none |-> TRUE, list |-> <<>>],
    [none |-> FALSE, list |-> <<>>],
    [none |-> FALSE, list |-> << <<"A">> >>],
    [none |-> FALSE, list |-> << <<"A", Pipe, "B">> >>],
    [none |-> FALSE, list |-> << <<"A">>, <<"B">> >>],
    [none |-> FALSE, list |-> << <<"A", Pipe, "B">>, <<"C">> >>] }

\* question_type and options of add_question: a choice question with each
\* options argument, the other types without options or with one
CsvQuestionInputs ==
  {<<"choice", o>> : o \in CsvOptionsInputs}
    \cup {<<t, o>> : t \in {"rating", "text"},
                     o \in {o \in CsvOptionsInputs : o.none}}
    \cup {<<"text", o>> : o \in {o \in CsvOptionsInputs : o.list = << <<"A">> >>}}

\* answers dicts against the first question added and against a question id
\* that no survey has
CsvUnknownQuestionInputs ==
  { << <<"q1", <<"A">>>> >>,
    << <<"q1", <<"A">>>>, <<"q9", <<"z">>>> >>,
    << <<"q9", <<"z">>>> >> }

\* answers dicts to the choice and the text question; some answers hold a
\* carriage return or a line feed
CsvTextInputs ==
  { << <<"q2", <<"A">>>> >>,
    << <<"q2", <<"B">>>> >>,
    << <<"q2", <<"A", CR>>>> >>,
    << <<"q2", <<"A">>>>, <<"q3", <<"o", "k">>>> >>,
    << <<"q3", <<"o", "k">>>> >>,
    << <<"q3", <<"n", "o">>>> >>,
    << <<"q3", <<"o", LF, "k">>>> >>,
    << <<"q3", <<"o", CR, LF, "k">>>> >>,
    << <<"q3", <<"o", CR, "k">>>> >>,
    << <<"q3", <<>>>> >> }

NoJob == [survey_id |-> "", respondent_id |-> "", rest |-> <<>>]

\* ------------------------------------------------------------------ Init
InitQuestions ==
  (1 :> [form_id |-> 1, question_type |-> "short_text", required |-> TRUE,
         order |-> 0, options |-> <<>>])
  @@ (2 :> [form_id |-> 1, question_type |-> "scale", required |-> FALSE,
            order |-> 1, options |-> <<>>])

\* the one question of the survey of InitStats: an optional checkbox question
CheckboxQuestions ==
  (1 :> [form_id |-> 1, question_type |-> "checkbox", required |-> FALSE,
         order |-> 0, options |-> <<"a", "b", "c">>])

\* the questions of the survey of InitValidate: a required text question and
\* an optional scale, multiple choice and checkbox question
ValidateQuestions ==
  (1 :> [form_id |-> 1, question_type |-> "short_text", required |-> TRUE,
         order |-> 0, options |-> <<>>])
  @@ (2 :> [form_id |-> 1, question_type |-> "scale", required |-> FALSE,
            order |-> 1, options |-> <<>>])
  @@ (3 :> [form_id |-> 1, question_type |-> "multiple_choice", required |-> FALSE,
            order |-> 2, options |-> <<"a", "b">>])
  @@ (4 :> [form_id |-> 1, question_type |-> "checkbox", required |-> FALSE,
            order |-> 3, options |-> <<"a", "b">>])

\* the policies a survey is created with
Policies ==
  [owner_id : {OwnerId}, is_active : BOOLEAN, accepts_responses : BOOLEAN,
   requires_login : BOOLEAN, limit_one_response : BOOLEAN,
   deadline : {0, 1}, max_responses : 0..MaxLimit]

\* the policies of the surveys the racing handlers submit to: the defaults of
\* models.Form but for the two limits
RacePolicies ==
  {p \in Policies : p.is_active /\ p.accepts_responses /\ ~p.requires_login
                     /\ p.deadline = 0}

\* one survey created by OwnerId with two questions, no response yet
InitWith(P) ==
  /\ \E p \in P : forms = (1 :> p)
  /\ questions = InitQuestions
  /\ responses = << >>
  /\ answers = << >>
  /\ nextResponseId = 1
  /\ now = 1
  /\ pc = [h \in Handlers |-> "idle"]
  /\ args = [h \in Handlers |-> NoArgs]
  /\ rid = [h \in Handlers |-> 0]
  /\ idx = [h \in Handlers |-> 1]
  /\ reply = NoReply
  /\ accepted = {}

\* one survey with a rating, a choice and a text question
InitCsvWith(R) ==
  /\ csv_surveys = {"s1"}
  /\ csv_questions = CsvInitQuestions
  /\ csv_responses \in R
  /\ csv_job = NoJob

Init == InitWith(Policies) /\ InitCsvWith({<<>>})

InitRace == InitWith(RacePolicies) /\ InitCsvWith({<<>>})

\* the CSV implementation, with no response yet or after the ten submissions
\* of TestScenario03
InitCsv ==
  /\ InitWith({p \in RacePolicies : p.max_responses = 0 /\ ~p.limit_one_response})
  /\ InitCsvWith({<<>>, ScenarioRows})

\* ------------------------------------------- SQL: submit_response steps
\* the response row is inserted before the answers are validated
SubmitFlowCreateFirst == <<"check", "create", "validate", "answers">>

\* ResponseService.submit_response in the order of its statements:
\* lines 31-42, line 45, lines 48-54, lines 57-61
SubmitFlow == <<"check", "validate", "create", "answers">>

StageAfter(stage) ==
  LET i == CHOOSE j \in 1..Len(SubmitFlow) : SubmitFlow[j] = stage
  IN IF i < Len(SubmitFlow) THEN SubmitFlow[i + 1] ELSE "idle"

\* where the handler stands once `stage` is through: the loop of lines 57-61
\* has nothing to do for an empty list, "idle" is the return of line 63
NextPc(stage, a) ==
  LET n == StageAfter(stage)
  IN IF n = "answers" /\ a.answers = <<>> THEN StageAfter("answers") ELSE n

SubmitReply(h, a, status) ==
  [op |-> "submit_response", handler |-> h, survey_id |-> a.survey_id,
   respondent_id |-> a.respondent_id, respondent_email |-> a.respondent_email,
   status |-> status]

\* the identity of a respondent: respondent_id if authenticated, else the email
Identity(user_id, email) ==
  IF user_id # NoUser THEN [kind |-> "user", user |-> user_id, email |-> NoText]
  ELSE [kind |-> "email", user |-> NoUser, email |-> email]

\* the statement after `stage` runs next, or the call returns the response
Continue(h, stage, a) ==
  /\ pc' = [pc EXCEPT ![h] = NextPc(stage, a)]
  /\ reply' = IF NextPc(stage, a) = "idle" THEN SubmitReply(h, a, "ok") ELSE NoReply
  /\ accepted' = IF NextPc(stage, a) = "idle"
                      /\ (a.respondent_id # NoUser \/ a.respondent_email # NoText)
                   THEN accepted \cup {<<a.survey_id, Identity(a.respondent_id, a.respondent_email)>>}
                   ELSE accepted

\* the call ends with an HTTPException (or another exception)
Raise(h, a, reason) ==
  /\ pc' = [pc EXCEPT ![h] = "idle"]
  /\ reply' = SubmitReply(h, a, reason)
  /\ UNCHANGED accepted

\* the locals of a handler that is not running
Locals(h, a, r, i) ==
  /\ args' = [args EXCEPT ![h] = IF pc'[h] = "idle" THEN NoArgs ELSE a]
  /\ rid' = [rid EXCEPT ![h] = IF pc'[h] = "idle" THEN 0 ELSE r]
  /\ idx' = [idx EXCEPT ![h] = IF pc'[h] = "idle" THEN 1 ELSE i]

\* handlers that will still insert a response row
Pending == {g \in Handlers : pc[g] # "idle" /\ rid[g] = 0}

\* a call with one of the answer lists arrives and runs lines 30-42
SubmitCheckOf(h, lists) ==
  /\ pc[h] = "idle"
  /\ nextResponseId + Cardinality(Pending) <= MaxResponseId
  /\ \E sid \in SurveyIdInputs, who \in RespondentInputs, al \in lists :
       LET a == [survey_id |-> sid, respondent_id |-> who.respondent_id,
                 respondent_email |-> who.respondent_email, answers |-> al]
           v == SubmitEligibility(forms, responses, now, a)
       IN /\ IF v = "ok" THEN Continue(h, "check", a) ELSE Raise(h, a, v)
          /\ Locals(h, a, 0, 1)
  /\ UNCHANGED <<db, now, csv>>

\* a call with one of the answer lists of AnswerListInputs arrives
SubmitCheck(h) == SubmitCheckOf(h, AnswerListInputs)

\* line 45
SubmitValidate(h) ==
  /\ pc[h] = "validate"
  /\ LET v == ValidateAnswers(questions, args[h].survey_id, args[h].answers)
     IN IF v = "ok" THEN Continue(h, "validate", args[h]) ELSE Raise(h, args[h], v)
  /\ Locals(h, args[h], rid[h], idx[h])
  /\ UNCHANGED <<db, now, csv>>

\* lines 48-54: ResponseRepository.create_response commits the row
SubmitCreate(h) ==
  /\ pc[h] = "create"
  /\ responses' = (nextResponseId :>
                     [form_id |-> args[h].survey_id,
                      respondent_id |-> args[h].respondent_id,
                      respondent_email |->
                        IF args[h].respondent_email = NoText THEN "Anonymous"
                        ELSE args[h].respondent_email]) @@ responses
  /\ nextResponseId' = nextResponseId + 1
  /\ Continue(h, "create", args[h])
  /\ Locals(h, args[h], nextResponseId, idx[h])
  /\ UNCHANGED <<forms, questions, answers, now, csv>>

\* lines 57-61, one iteration: ResponseRepository.add_answer commits the row.
\* The SQLite database of core/config.py does not enforce foreign keys, so the
\* row of a response deleted meanwhile is stored as well (from the second
\* iteration on, see also SubmitAddAnswerDeleted).
SubmitAddAnswer(h) ==
  /\ pc[h] = "answers"
  /\ ~args[h].answers[idx[h]].extra
  /\ LET a == args[h].answers[idx[h]]
         row == [response_id |-> rid[h], question_id |-> a.question_id,
                 text_answer |-> a.text_answer, number_answer |-> a.number_answer,
                 json_answer |-> a.json_answer, file_url |-> a.file_url]
     IN answers' = IF rid[h] \in DOMAIN answers
                     THEN [answers EXCEPT ![rid[h]] = Append(@, row)]
                     ELSE (rid[h] :> <<row>>) @@ answers
  /\ IF idx[h] = Len(args[h].answers)
       THEN Continue(h, "answers", args[h])
       ELSE UNCHANGED <<pc, accepted>> /\ reply' = NoReply
  /\ Locals(h, args[h], rid[h], idx[h] + 1)
  /\ UNCHANGED <<forms, questions, responses, nextResponseId, now, csv>>

\* lines 57-61, an iteration that raises: add_answer(response_id, **answer_data)
\* is a TypeError for a dict with a key it has no parameter for; nothing is
\* rolled back
SubmitAddAnswerRaises(h) ==
  /\ pc[h] = "answers"
  /\ args[h].answers[idx[h]].extra
  /\ Raise(h, args[h], "error")
  /\ Locals(h, args[h], rid[h], idx[h])
  /\ UNCHANGED <<db, now, csv>>

\* lines 57-61, an iteration after the first for a response deleted
\* meanwhile: the commit of the previous add_answer has expired `response`
\* unless the session is made with expire_on_commit=False, so response.id is
\* reloaded and raises ObjectDeletedError; nothing is rolled back. The session
\* factory is not part of the sources, so both outcomes are modelled: this
\* one, and the row stored by SubmitAddAnswer.
SubmitAddAnswerDeleted(h) ==
  /\ pc[h] = "answers"
  /\ idx[h] > 1
  /\ rid[h] \notin DOMAIN responses
  /\ Raise(h, args[h], "error")
  /\ Locals(h, args[h], rid[h], idx[h])
  /\ UNCHANGED <<db, now, csv>>

\* ------------------------------------------------- SQL: other operations
\* ResponseService.delete_response; the ORM cascade removes the answers
DeleteResponse(response_id, user_id) ==
  /\ response_id \in DOMAIN responses
  /\ LET r == responses[response_id]
         allowed == forms[r.form_id].owner_id = user_id \/ r.respondent_id = user_id
     IN IF allowed
          THEN /\ responses' = [k \in DOMAIN responses \ {response_id} |-> responses[k]]
               /\ answers' = [k \in DOMAIN answers \ {response_id} |-> answers[k]]
               /\ reply' = [op |-> "delete_response", status |-> "ok"]
          ELSE /\ UNCHANGED <<responses, answers>>
               /\ reply' = [op |-> "delete_response", status |-> "forbidden"]
  /\ UNCHANGED <<forms, questions, nextResponseId, now, pc, args, rid, idx, accepted, csv>>

\* SurveyService.update_survey with one field of schemas.FormUpdate
UpdateSurvey(sid, user_id, upd) ==
  /\ IF IsOwner(forms, sid, user_id)
       THEN /\ forms' = [forms EXCEPT ![sid] = [@ EXCEPT ![upd.field] = upd.value]]
            /\ reply' = [op |-> "update_survey", status |-> "ok", survey_id |-> sid]
       ELSE /\ UNCHANGED forms
            /\ reply' = [op |-> "update_survey", status |-> "forbidden",
                         survey_id |-> sid]
  /\ UNCHANGED <<questions, responses, answers, nextResponseId, now,
                 pc, args, rid, idx, accepted, csv>>

\* SurveyService.delete_survey; the cascades of models.Form remove the
\* questions, the responses and their answers
DeleteSurvey(sid, user_id) ==
  /\ IF IsOwner(forms, sid, user_id)
       THEN /\ forms' = [f \in DOMAIN forms \ {sid} |-> forms[f]]
            /\ questions' = [q \in {k \in DOMAIN questions : questions[k].form_id # sid}
                               |-> questions[q]]
            /\ responses' = [r \in {k \in DOMAIN responses : responses[k].form_id # sid}
                               |-> responses[r]]
            /\ answers' = [r \in {k \in DOMAIN answers :
                                     k \in DOMAIN responses => responses[k].form_id # sid}
                             |-> answers[r]]
            /\ reply' = [op |-> "delete_survey", status |-> "ok", survey_id |-> sid]
       ELSE /\ UNCHANGED <<forms, questions, responses, answers>>
            /\ reply' = [op |-> "delete_survey", status |-> "forbidden",
                         survey_id |-> sid]
  /\ UNCHANGED <<nextResponseId, now, pc, args, rid, idx, accepted, csv>>

\* time passes; the code reads the clock only to compare it with a deadline
\* (_get_and_validate_survey, line 181), so time that passes while no survey
\* has a deadline ahead changes nothing and is not stepped through
Tick ==
  /\ now < MaxTime
  /\ \E s \in DOMAIN forms : forms[s].deadline >= now
  /\ now' = now + 1
  /\ reply' = NoReply
  /\ UNCHANGED <<db, pc, args, rid, idx, accepted, csv>>

\* SurveyService.get_survey_statistics
GetSurveyStatistics(sid, user_id) ==
  /\ reply' = IF IsOwner(forms, sid, user_id)
                THEN [op |-> "get_survey_statistics", status |-> "ok", survey_id |-> sid,
                      user_id |-> user_id,
                      stats |-> RepoSurveyStatistics(questions, responses, answers, sid)]
                ELSE [op |-> "get_survey_statistics", status |-> "forbidden",
                      survey_id |-> sid, user_id |-> user_id]
  /\ UNCHANGED <<db, now, pc, args, rid, idx, accepted, csv>>

\* app/api/surveys_refactored.py, GET /{survey_id}/stats
GetSurveyStats(sid) ==
  /\ reply' = IF ~SurveyExists(forms, sid)
                THEN [op |-> "stats", status |-> "not_found"]
              ELSE IF RefactoredRaises(questions, answers, sid)
                THEN [op |-> "stats", status |-> "error"]
              ELSE [op |-> "stats", status |-> "ok", survey_id |-> sid,
                    stats |-> CalculateSurveyStatistics(questions, responses, answers, sid)]
  /\ UNCHANGED <<db, now, pc, args, rid, idx, accepted, csv>>

\* ResponseService.list_survey_responses
ListSurveyResponses(sid, user_id) ==
  /\ reply' = IF IsOwner(forms, sid, user_id)
                THEN [op |-> "list_survey_responses", status |-> "ok", survey_id |-> sid,
                      user_id |-> user_id,
                      responses |-> [r \in SurveyResponses(responses, sid) |-> responses[r]]]
                ELSE [op |-> "list_survey_responses", status |-> "forbidden",
                      survey_id |-> sid, user_id |-> user_id]
  /\ UNCHANGED <<db, now, pc, args, rid, idx, accepted, csv>>

\* ExportService.export_statistics
ExportStatistics(sid, user_id) ==
  /\ reply' = IF IsOwner(forms, sid, user_id)
                THEN [op |-> "export_statistics", status |-> "ok", survey_id |-> sid,
                      user_id |-> user_id,
                      stats |-> RepoSurveyStatistics(questions, responses, answers, sid)]
                ELSE [op |-> "export_statistics", status |-> "forbidden",
                      survey_id |-> sid, user_id |-> user_id]
  /\ UNCHANGED <<db, now, pc, args, rid, idx, accepted, csv>>

\* app/api/responses.py, GET /{form_id}/statistics
GetFormStatistics(sid, user_id) ==
  /\ reply' = IF ~SurveyExists(forms, sid)
                THEN [op |-> "get_form_statistics", status |-> "not_found",
                      survey_id |-> sid, user_id |-> user_id]
              ELSE IF forms[sid].owner_id # user_id
                THEN [op |-> "get_form_statistics", status |-> "forbidden",
                      survey_id |-> sid, user_id |-> user_id]
              ELSE [op |-> "get_form_statistics", status |-> "ok", survey_id |-> sid,
                    user_id |-> user_id,
                    stats |-> FormStatistics(questions, responses, answers, sid)]
  /\ UNCHANGED <<db, now, pc, args, rid, idx, accepted, csv>>

\* one submission at a time, with every other operation running between
\* its commits
Next ==
  \/ SubmitCheck(1)
  \/ SubmitValidate(1)
  \/ SubmitCreate(1)
  \/ SubmitAddAnswer(1)
  \/ SubmitAddAnswerRaises(1)
  \/ SubmitAddAnswerDeleted(1)
  \/ \E r \in 1..MaxResponseId, u \in Users : DeleteResponse(r, u)
  \/ \E upd \in UpdateInputs : UpdateSurvey(1, OwnerId, upd)
  \/ \E upd \in RaceUpdateInputs : UpdateSurvey(1, OtherUser, upd)
  \/ Tick
  \/ \E u \in Users : GetSurveyStatistics(1, u)
  \/ GetSurveyStats(1)

Spec == Init /\ [][Next]_vars

\* several submissions in flight
NextRace ==
  \/ \E h \in Handlers : SubmitCheck(h)
  \/ \E h \in Handlers : SubmitValidate(h)
  \/ \E h \in Handlers : SubmitCreate(h)
  \/ \E h \in Handlers : SubmitAddAnswer(h)
  \/ \E h \in Handlers : SubmitAddAnswerRaises(h)
  \/ \E h \in Handlers : SubmitAddAnswerDeleted(h)
  \/ \E r \in 1..MaxResponseId, u \in Users : DeleteResponse(r, u)
  \/ \E upd \in RaceUpdateInputs : UpdateSurvey(1, OwnerId, upd)

SpecRace == InitRace /\ [][NextRace]_vars

\* one open survey of OwnerId with a checkbox question, no response yet
InitStats ==
  /\ \E p \in {p \in RacePolicies : p.max_responses = 0 /\ ~p.limit_one_response} :
       forms = (1 :> p)
  /\ questions = CheckboxQuestions
  /\ responses = << >>
  /\ answers = << >>
  /\ nextResponseId = 1
  /\ now = 1
  /\ pc = [h \in Handlers |-> "idle"]
  /\ args = [h \in Handlers |-> NoArgs]
  /\ rid = [h \in Handlers |-> 0]
  /\ idx = [h \in Handlers |-> 1]
  /\ reply = NoReply
  /\ accepted = {}
  /\ InitCsvWith({<<>>})

\* submissions to the checkbox question, and the requests for statistics,
\* responses and exports by the owner and by another user
NextStats ==
  \/ SubmitCheckOf(1, CheckboxAnswerInputs)
  \/ SubmitValidate(1)
  \/ SubmitCreate(1)
  \/ SubmitAddAnswer(1)
  \/ \E sid \in OwnerSurveyIdInputs, u \in Users : GetSurveyStatistics(sid, u)
  \/ \E sid \in OwnerSurveyIdInputs, u \in Users : ListSurveyResponses(sid, u)
  \/ \E sid \in OwnerSurveyIdInputs, u \in Users : ExportStatistics(sid, u)
  \/ \E sid \in OwnerSurveyIdInputs, u \in Users : GetFormStatistics(sid, u)
  \/ \E sid \in OwnerSurveyIdInputs : GetSurveyStats(sid)

SpecStats == InitStats /\ [][NextStats]_vars

\* the id SQLite gives the next row of table questions: the largest id plus one
NextQuestionId(qs) ==
  IF DOMAIN qs = {} THEN 1
  ELSE (CHOOSE m \in DOMAIN qs : \A k \in DOMAIN qs : k <= m) + 1

\* SurveyService.add_question: the order is the number of questions of the survey
AddQuestion(sid, user_id, question_data) ==
  /\ NextQuestionId(questions) <= MaxQuestionId
  /\ IF ~IsOwner(forms, sid, user_id)
       THEN /\ reply' = [op |-> "add_question", status |-> "forbidden",
                         survey_id |-> sid, user_id |-> user_id]
            /\ UNCHANGED questions
       ELSE LET order == Len(SurveyQuestions(questions, sid))
                id == NextQuestionId(questions)
            IN /\ questions' = questions @@
                     (id :> [form_id |-> sid,
                             question_type |-> question_data.question_type,
                             required |-> question_data.required,
                             order |-> order,
                             options |-> question_data.options])
               /\ reply' = [op |-> "add_question", status |-> "ok", survey_id |-> sid,
                            user_id |-> user_id, question_id |-> id, order |-> order]
  /\ UNCHANGED <<forms, responses, answers, nextResponseId, now, pc, args, rid, idx,
                 accepted, csv>>

\* SurveyService.delete_question; the answers to the question go with it
DeleteQuestion(sid, question_id, user_id) ==
  /\ IF ~IsOwner(forms, sid, user_id)
       THEN /\ reply' = [op |-> "delete_question", status |-> "forbidden",
                         survey_id |-> sid, user_id |-> user_id]
            /\ UNCHANGED <<questions, answers>>
       ELSE IF question_id \in DOMAIN questions /\ questions[question_id].form_id = sid
         THEN /\ questions' = [q \in DOMAIN questions \ {question_id} |-> questions[q]]
              /\ answers' = [r \in DOMAIN answers |->
                               SelectSeq(answers[r],
                                         LAMBDA a : a.question_id # question_id)]
              /\ reply' = [op |-> "delete_question", status |-> "ok", survey_id |-> sid,
                           user_id |-> user_id, question_id |-> question_id]
         ELSE /\ reply' = [op |-> "delete_question", status |-> "not_found",
                           survey_id |-> sid, user_id |-> user_id]
              /\ UNCHANGED <<questions, answers>>
  /\ UNCHANGED <<forms, responses, nextResponseId, now, pc, args, rid, idx,
                 accepted, csv>>

\* the owner and another user adding and deleting questions of the survey
NextQuestions ==
  \/ \E sid \in OwnerSurveyIdInputs, u \in Users, d \in QuestionDataInputs :
       AddQuestion(sid, u, d)
  \/ \E sid \in OwnerSurveyIdInputs, q \in 1..MaxQuestionId, u \in Users :
       DeleteQuestion(sid, q, u)

SpecQuestions == InitStats /\ [][NextQuestions]_vars

\* the requests of SurveyService that check ownership first, by the owner and
\* by another user, for the survey and for a survey id that does not resolve
NextOwner ==
  \/ \E sid \in OwnerSurveyIdInputs, u \in Users : GetSurveyStatistics(sid, u)
  \/ \E sid \in OwnerSurveyIdInputs, u \in Users, upd \in UpdateInputs :
       UpdateSurvey(sid, u, upd)
  \/ \E sid \in OwnerSurveyIdInputs, u \in Users : DeleteSurvey(sid, u)

SpecOwner == InitStats /\ [][NextOwner]_vars

\* the row add_answer stores for answer dict a of response r
AnswerRow(r, a) ==
  [response_id |-> r, question_id |-> a.question_id,
   text_answer |-> a.text_answer, number_answer |-> a.number_answer,
   json_answer |-> a.json_answer, file_url |-> a.file_url]

\* the stored answers of a response; none for a response without a row
AnswersOf(as, r) == IF r \in DOMAIN as THEN as[r] ELSE <<>>

\* ResponseService.get_response; user_id is NoUser for a caller without a user
GetResponse(response_id, user_id) ==
  /\ reply' =
       IF response_id \notin DOMAIN responses
         THEN [op |-> "get_response", status |-> "not_found",
               response_id |-> response_id, user_id |-> user_id]
       ELSE LET response == responses[response_id]
                is_owner == forms[response.form_id].owner_id = user_id
                is_respondent == response.respondent_id = user_id
            IN IF user_id # NoUser /\ ~(is_owner \/ is_respondent)
                 THEN [op |-> "get_response", status |-> "forbidden",
                       response_id |-> response_id, user_id |-> user_id]
                 ELSE [op |-> "get_response", status |-> "ok",
                       response_id |-> response_id, user_id |-> user_id,
                       response |-> response,
                       answers |-> AnswersOf(answers, response_id)]
  /\ UNCHANGED <<db, now, pc, args, rid, idx, accepted, csv>>

\* where a handler of update_response stands: before the commit of
\* delete_response_answers, and before the commit of one add_answer
UpdateFlow == {"update_delete", "update_answers"}

UpdateReply(h, response_id, user_id, al, status) ==
  [op |-> "update_response", handler |-> h, response_id |-> response_id,
   user_id |-> user_id, answers |-> al, status |-> status]

\* ResponseService.update_response, lines 113-128: the response, the
\* respondent check and the validation of the answers
UpdateResponseCheck(h, response_id, user_id, al) ==
  /\ pc[h] = "idle"
  /\ IF response_id \notin DOMAIN responses
       THEN /\ reply' = UpdateReply(h, response_id, user_id, al, "not_found")
            /\ UNCHANGED <<pc, args, rid>>
     ELSE IF responses[response_id].respondent_id # user_id
       THEN /\ reply' = UpdateReply(h, response_id, user_id, al, "forbidden")
            /\ UNCHANGED <<pc, args, rid>>
     ELSE LET sid == responses[response_id].form_id
              v == ValidateAnswers(questions, sid, al)
          IN IF v # "ok"
               THEN /\ reply' = UpdateReply(h, response_id, user_id, al, v)
                    /\ UNCHANGED <<pc, args, rid>>
               ELSE /\ reply' = NoReply
                    /\ pc' = [pc EXCEPT ![h] = "update_delete"]
                    /\ args' = [args EXCEPT ![h] =
                                  [survey_id |-> sid, respondent_id |-> user_id,
                                   respondent_email |-> NoText, answers |-> al]]
                    /\ rid' = [rid EXCEPT ![h] = response_id]
  /\ UNCHANGED <<db, now, idx, accepted, csv>>

\* the end of update_response: line 134 reads the response again
UpdateReturn(h, status) ==
  /\ pc' = [pc EXCEPT ![h] = "idle"]
  /\ reply' = UpdateReply(h, rid[h], args[h].respondent_id, args[h].answers, status)
  /\ args' = [args EXCEPT ![h] = NoArgs]
  /\ rid' = [rid EXCEPT ![h] = 0]
  /\ idx' = [idx EXCEPT ![h] = 1]

\* ResponseRepository.delete_response_answers: the rows go, and the commit
UpdateDeleteAnswers(h) ==
  /\ pc[h] = "update_delete"
  /\ answers' = [r \in DOMAIN answers |-> IF r = rid[h] THEN <<>> ELSE answers[r]]
  /\ IF args[h].answers = <<>>
       THEN UpdateReturn(h, "ok")
       ELSE /\ pc' = [pc EXCEPT ![h] = "update_answers"]
            /\ reply' = NoReply
            /\ UNCHANGED <<args, rid, idx>>
  /\ UNCHANGED <<forms, questions, responses, nextResponseId, now, accepted, csv>>

\* one iteration of the loop of update_response_answers: add_answer commits
\* the row, or raises for a dict with a key it has no parameter for
UpdateAddAnswer(h) ==
  /\ pc[h] = "update_answers"
  /\ LET a == args[h].answers[idx[h]]
     IN IF a.extra
          THEN /\ UNCHANGED answers
               /\ UpdateReturn(h, "error")
          ELSE /\ answers' = IF rid[h] \in DOMAIN answers
                               THEN [answers EXCEPT ![rid[h]] =
                                       Append(@, AnswerRow(rid[h], a))]
                               ELSE (rid[h] :> <<AnswerRow(rid[h], a)>>) @@ answers
               /\ IF idx[h] = Len(args[h].answers)
                    THEN UpdateReturn(h, "ok")
                    ELSE /\ idx' = [idx EXCEPT ![h] = idx[h] + 1]
                         /\ reply' = NoReply
                         /\ UNCHANGED <<pc, args, rid>>
  /\ UNCHANGED <<forms, questions, responses, nextResponseId, now, accepted, csv>>

\* the callers of get_response: the users, and a caller without a user
CallerInputs == {NoUser} \cup Users

\* an open survey of OwnerId without a limit, no response yet
InitResponses ==
  /\ InitWith({p \in RacePolicies : p.max_responses = 0 /\ ~p.limit_one_response})
  /\ InitCsvWith({<<>>})

\* submissions that store responses, and reads and updates of the responses
NextResponses ==
  \/ /\ nextResponseId <= MaxResponseId
     /\ SubmitCheckOf(1, StoredAnswerInputs)
  \/ SubmitValidate(1)
  \/ SubmitCreate(1)
  \/ SubmitAddAnswer(1)
  \/ \E r \in 1..MaxResponseId, u \in CallerInputs : GetResponse(r, u)
  \/ \E h \in Handlers, r \in 1..MaxResponseId, u \in Users, al \in UpdateAnswerInputs :
       UpdateResponseCheck(h, r, u, al)
  \/ \E h \in Handlers : UpdateDeleteAnswers(h)
  \/ \E h \in Handlers : UpdateAddAnswer(h)

SpecResponses == InitResponses /\ [][NextResponses]_vars

\* one open survey with a response limit, no response yet
InitSequential ==
  /\ InitWith({p \in RacePolicies : p.max_responses = MaxLimit})
  /\ InitCsvWith({<<>>})

\* submissions and deletions one after the other: a response is deleted only
\* while no submission is running, and the limit is never updated
NextSequential ==
  \/ SubmitCheck(1)
  \/ SubmitValidate(1)
  \/ SubmitCreate(1)
  \/ SubmitAddAnswer(1)
  \/ SubmitAddAnswerRaises(1)
  \/ /\ \A h \in Handlers : pc[h] = "idle"
     /\ \E r \in 1..MaxResponseId, u \in Users : DeleteResponse(r, u)

SpecSequential == InitSequential /\ [][NextSequential]_vars

\* one open survey of OwnerId with the questions of ValidateQuestions
InitValidate ==
  /\ \E p \in {p \in RacePolicies : p.max_responses = 0 /\ ~p.limit_one_response} :
       forms = (1 :> p)
  /\ questions = ValidateQuestions
  /\ responses = << >>
  /\ answers = << >>
  /\ nextResponseId = 1
  /\ now = 1
  /\ pc = [h \in Handlers |-> "idle"]
  /\ args = [h \in Handlers |-> NoArgs]
  /\ rid = [h \in Handlers |-> 0]
  /\ idx = [h \in Handlers |-> 1]
  /\ reply = NoReply
  /\ accepted = {}
  /\ InitCsvWith({<<>>})

\* submissions of the answer lists of ValidateAnswerInputs
NextValidate ==
  \/ SubmitCheckOf(1, ValidateAnswerInputs)
  \/ SubmitValidate(1)
  \/ SubmitCreate(1)
  \/ SubmitAddAnswer(1)

SpecValidate == InitValidate /\ [][NextValidate]_vars

\* ------------------------------------------- CSV implementation: steps
\* rows of responses.csv that were there at the start
StartRows(rows) ==
  IF Len(rows) >= Len(ScenarioRows) /\ SubSeq(rows, 1, Len(ScenarioRows)) = ScenarioRows
    THEN Len(ScenarioRows) ELSE 0

\* application ResponseService.submit_response, lines 38-40, and the loop of
\* lines 42-52 entered
CsvSubmitResponse(sid, who, al) ==
  /\ csv_job = NoJob
  /\ Len(csv_responses) + Len(al) <= StartRows(csv_responses) + MaxCsvRows
  /\ IF ~FindSurveyById(csv_surveys, sid)
       THEN /\ reply' = [op |-> "csv_submit_response", status |-> "not_found",
                         survey_id |-> sid]
            /\ UNCHANGED csv_job
     ELSE IF al = <<>>
       THEN /\ reply' = [op |-> "csv_submit_response", status |-> "ok",
                         survey_id |-> sid]
            /\ UNCHANGED csv_job
     ELSE /\ reply' = NoReply
          /\ csv_job' = [survey_id |-> sid, respondent_id |-> who, rest |-> al]
  /\ UNCHANGED <<sql, csv_surveys, csv_questions, csv_responses>>

\* one iteration of lines 42-52: CsvResponseRepository.save appends a row
CsvSave ==
  /\ csv_job # NoJob
  /\ csv_responses' =
       Append(csv_responses,
              CsvRow(csv_job.survey_id, Head(csv_job.rest)[1], Head(csv_job.rest)[2],
                     csv_job.respondent_id))
  /\ IF Len(csv_job.rest) = 1
       THEN /\ csv_job' = NoJob
            /\ reply' = [op |-> "csv_submit_response", status |-> "ok",
                         survey_id |-> csv_job.survey_id]
       ELSE /\ csv_job' = [csv_job EXCEPT !.rest = Tail(@)]
            /\ reply' = NoReply
  /\ UNCHANGED <<sql, csv_surveys, csv_questions>>

\* a get_survey_results that marks the rows it has aggregated by removing them
CsvGetSurveyResultsConsuming(sid) ==
  /\ reply' =
       IF ~FindSurveyById(csv_surveys, sid)
         THEN [op |-> "get_survey_results", status |-> "not_found", survey_id |-> sid]
       ELSE IF ResultsRaise(csv_questions, csv_responses, sid)
         THEN [op |-> "get_survey_results", status |-> "value_error", survey_id |-> sid]
       ELSE [op |-> "get_survey_results", status |-> "ok", survey_id |-> sid,
             results |-> SurveyResults(csv_questions, csv_responses, sid)]
  /\ csv_responses' = SelectSeq(csv_responses, LAMBDA r : r.survey_id # sid)
  /\ UNCHANGED <<sql, csv_surveys, csv_questions, csv_job>>

\* interface/api/routers/responses.py get_survey_results: the results of
\* application ResponseService.get_survey_results, a ValueError answered 404
CsvGetSurveyResults(sid) ==
  /\ reply' =
       IF ~FindSurveyById(csv_surveys, sid)
         THEN [op |-> "get_survey_results", status |-> "not_found", survey_id |-> sid]
       ELSE IF ResultsRaise(csv_questions, csv_responses, sid)
         THEN [op |-> "get_survey_results", status |-> "value_error", survey_id |-> sid]
       ELSE [op |-> "get_survey_results", status |-> "ok", survey_id |-> sid,
             results |-> SurveyResults(csv_questions, csv_responses, sid)]
  /\ UNCHANGED <<sql, csv>>

NextCsv ==
  \/ \E sid \in CsvSurveyIdInputs, al \in CsvAnswerInputs :
       CsvSubmitResponse(sid, "p1", al)
  \/ CsvSave
  \/ \E sid \in CsvSurveyIdInputs : CsvGetSurveyResults(sid)

SpecCsv == InitCsv /\ [][NextCsv]_vars

\* the CSV implementation with answers to the choice and the text question
InitCsvText ==
  /\ InitWith({p \in RacePolicies : p.max_responses = 0 /\ ~p.limit_one_response})
  /\ InitCsvWith({<<>>})

NextCsvText ==
  \/ \E sid \in CsvSurveyIdInputs, al \in CsvTextInputs :
       CsvSubmitResponse(sid, "p1", al)
  \/ CsvSave
  \/ \E sid \in CsvSurveyIdInputs : CsvGetSurveyResults(sid)

SpecCsvText == InitCsvText /\ [][NextCsvText]_vars

\* application SurveyService.create_survey; the uuid4 id is a fresh id
CsvCreateSurvey(title, description) ==
  /\ Cardinality(csv_surveys) < MaxCsvSurveys
  /\ IF IsBlank(title) \/ IsBlank(description)
       THEN /\ reply' = [op |-> "create_survey", status |-> "value_error"]
            /\ UNCHANGED csv_surveys
       ELSE LET id == "s" \o IntToStr(Cardinality(csv_surveys) + 1)
            IN /\ csv_surveys' = csv_surveys \cup {id}
               /\ reply' = [op |-> "create_survey", status |-> "ok", survey_id |-> id]
  /\ UNCHANGED <<sql, csv_questions, csv_responses, csv_job>>

\* application SurveyService.add_question; the uuid4 id is a fresh id
CsvAddQuestion(sid, text, question_type, opts) ==
  LET options == IF ~opts.none /\ opts.list # <<>> THEN opts.list ELSE NoOptions
      id == "q" \o IntToStr(Len(csv_questions) + 1)
      request == [survey_id |-> sid, text |-> text, question_type |-> question_type,
                  options |-> opts]
  IN /\ Len(csv_questions) < MaxCsvQuestions
     /\ IF ~FindSurveyById(csv_surveys, sid)
          THEN /\ reply' = [op |-> "add_question", status |-> "not_found",
                            request |-> request]
               /\ UNCHANGED csv_questions
        ELSE IF FindSurveyRaises(csv_questions, sid)
                  \/ QuestionRaises(text, question_type, options)
          THEN /\ reply' = [op |-> "add_question", status |-> "value_error",
                            request |-> request]
               /\ UNCHANGED csv_questions
        ELSE /\ csv_questions' =
                  Append(csv_questions,
                         [id |-> id, survey_id |-> sid, text |-> text,
                          question_type |-> question_type,
                          options |-> OptionsToDict(options)])
             /\ reply' = [op |-> "add_question", status |-> "ok", question_id |-> id,
                          request |-> request]
     /\ UNCHANGED <<sql, csv_surveys, csv_responses, csv_job>>

\* application SurveyService.get_survey
CsvGetSurvey(sid) ==
  /\ reply' =
       IF ~FindSurveyById(csv_surveys, sid)
         THEN [op |-> "get_survey", status |-> "not_found", survey_id |-> sid]
       ELSE IF FindSurveyRaises(csv_questions, sid)
         THEN [op |-> "get_survey", status |-> "value_error", survey_id |-> sid]
       ELSE [op |-> "get_survey", status |-> "ok", survey_id |-> sid,
             questions |-> SurveyQuestionEntities(csv_questions, sid)]
  /\ UNCHANGED <<sql, csv>>

\* the CSV implementation with one survey that has no question yet
InitCsvSurvey ==
  /\ InitWith({p \in RacePolicies : p.max_responses = 0 /\ ~p.limit_one_response})
  /\ csv_surveys = {"s1"}
  /\ csv_questions = <<>>
  /\ csv_responses = <<>>
  /\ csv_job = NoJob

NextCsvSurvey ==
  \/ \E title \in CsvTextFieldInputs, description \in CsvTextFieldInputs :
       CsvCreateSurvey(title, description)
  \/ \E sid \in CsvManySurveyIdInputs, text \in CsvTextFieldInputs,
        q \in CsvQuestionInputs :
       CsvAddQuestion(sid, text, q[1], q[2])
  \/ \E sid \in CsvManySurveyIdInputs : CsvGetSurvey(sid)
  \/ \E sid \in CsvManySurveyIdInputs, al \in CsvUnknownQuestionInputs :
       /\ Len(csv_responses) + Len(al) <= MaxCsvSurveyRows
       /\ CsvSubmitResponse(sid, "p1", al)
  \/ CsvSave
  \/ \E sid \in CsvManySurveyIdInputs : CsvGetSurveyResults(sid)

SpecCsvSurvey == InitCsvSurvey /\ [][NextCsvSurvey]_vars

TypeOK ==
  /\ \A h \in Handlers : pc[h] \in {"idle"} \cup SeqToSet(SubmitFlow) \cup UpdateFlow
  /\ nextResponseId \in 1..(MaxResponseId + 1)
  /\ now \in 1..MaxTime

\* ------------------------------------------------------------- properties
EligibilityReasons ==
  {"not_found", "inactive", "not_accepting", "deadline_passed", "limit_reached",
   "login_required", "duplicate"}

ValidationReasons ==
  {"invalid_question", "required", "type_mismatch", "not_a_number",
   "invalid_option", "needs_multiple"}

RejectReasons == EligibilityReasons \cup ValidationReasons

\* the step is handler h ending a call of submit_response with a reply
SubmitEnds(h) == reply'.op = "submit_response" /\ reply'.handler = h

\* the step is handler h raising in lines 30-42
CheckRejects(h) ==
  pc[h] = "idle" /\ reply'.op = "submit_response" /\ reply'.handler = h

\* the step is handler h passing lines 30-42
CheckPasses(h) == pc[h] = "idle" /\ pc'[h] # "idle"

\* a respondent who gave an identity
HasIdentity(user_id, email) == user_id # NoUser \/ email # NoText

\* the stored responses of a survey that a respondent identity submitted
StoredFrom(rs, sid, user_id, email) ==
  {r \in DOMAIN rs :
     /\ rs[r].form_id = sid
     /\ IF user_id # NoUser THEN rs[r].respondent_id = user_id
        ELSE rs[r].respondent_id = NoUser /\ rs[r].respondent_email = email}

\* C1: for a survey with max_responses = N the number of stored responses
\* never exceeds N, however the submit_response calls interleave
C1_LimitNeverExceeded ==
  \A s \in DOMAIN forms :
    forms[s].max_responses # 0
      => CountSurveyResponses(responses, s) <= forms[s].max_responses

\* C2 as stated: with limit_one_response set, once a submission of an identity
\* has been accepted every later submission of that identity is rejected as a
\* duplicate response
C2_AcceptedIdentityIsDuplicate ==
  [][\A h \in Handlers :
       /\ CheckPasses(h) =>
            ~(/\ forms[args'[h].survey_id].limit_one_response
              /\ HasIdentity(args'[h].respondent_id, args'[h].respondent_email)
              /\ <<args'[h].survey_id,
                   Identity(args'[h].respondent_id, args'[h].respondent_email)>> \in accepted)
       /\ CheckRejects(h) =>
            ((/\ SurveyExists(forms, reply'.survey_id)
              /\ forms[reply'.survey_id].limit_one_response
              /\ HasIdentity(reply'.respondent_id, reply'.respondent_email)
              /\ <<reply'.survey_id,
                   Identity(reply'.respondent_id, reply'.respondent_email)>> \in accepted)
             => reply'.status = "duplicate")]_vars

\* C2 as amended: with limit_one_response set, while a response of an identity
\* is stored every submission of that identity is rejected and stores nothing;
\* the reason is the duplicate response unless an earlier check of lines 30-38
\* rejects it
C2_StoredIdentityIsRejected ==
  [][\A h \in Handlers :
       /\ CheckPasses(h) =>
            ~(/\ forms[args'[h].survey_id].limit_one_response
              /\ HasIdentity(args'[h].respondent_id, args'[h].respondent_email)
              /\ StoredFrom(responses, args'[h].survey_id, args'[h].respondent_id,
                            args'[h].respondent_email) # {})
       /\ CheckRejects(h) =>
            ((/\ SurveyExists(forms, reply'.survey_id)
              /\ forms[reply'.survey_id].limit_one_response
              /\ HasIdentity(reply'.respondent_id, reply'.respondent_email)
              /\ StoredFrom(responses, reply'.survey_id, reply'.respondent_id,
                            reply'.respondent_email) # {})
             => /\ responses' = responses /\ answers' = answers
                /\ reply'.status \in EligibilityReasons
                /\ (/\ GetAndValidateSurvey(forms, responses, now, reply'.survey_id) = "ok"
                    /\ ~(forms[reply'.survey_id].requires_login
                         /\ reply'.respondent_id = NoUser))
                   => reply'.status = "duplicate")]_vars

\* a submission of an identity that has a stored response was just rejected
\* as a duplicate
C2_Witness ==
  /\ reply.op = "submit_response"
  /\ reply.status = "duplicate"
  /\ StoredFrom(responses, reply.survey_id, reply.respondent_id,
                reply.respondent_email) # {}

\* C3: a survey whose limit_one_response flag is set has at most one stored
\* response per respondent identity (respondent_id, else the email given;
\* responses stored as "Anonymous" come from respondents with no identity and
\* are not compared)
C3_AtMostOnePerIdentity ==
  \A s \in DOMAIN forms :
    forms[s].limit_one_response =>
      \A r1, r2 \in DOMAIN responses :
        (/\ r1 # r2
         /\ responses[r1].form_id = s /\ responses[r2].form_id = s
         /\ responses[r1].respondent_id = responses[r2].respondent_id
         /\ responses[r1].respondent_id = NoUser
              => responses[r1].respondent_email = responses[r2].respondent_email)
        => (responses[r1].respondent_id = NoUser
            /\ responses[r1].respondent_email = "Anonymous")

\* the reason the checks yield when evaluated in the order inactive, not
\* accepting, login required, deadline passed, limit reached, duplicate
ReasonInStatedOrder(fs, rs, t, sid, user_id, email) ==
  IF ~SurveyExists(fs, sid) THEN "not_found"
  ELSE IF ~fs[sid].is_active THEN "inactive"
  ELSE IF ~fs[sid].accepts_responses THEN "not_accepting"
  ELSE IF fs[sid].requires_login /\ user_id = NoUser THEN "login_required"
  ELSE IF fs[sid].deadline # 0 /\ t > fs[sid].deadline THEN "deadline_passed"
  ELSE IF fs[sid].max_responses # 0
          /\ CountSurveyResponses(rs, sid) >= fs[sid].max_responses
    THEN "limit_reached"
  ELSE IF fs[sid].limit_one_response /\ HasIdentity(user_id, email)
          /\ StoredFrom(rs, sid, user_id, email) # {}
    THEN "duplicate"
  ELSE "ok"

\* C4: the reason submit_response returns is that of the first condition that
\* holds in the order inactive, not accepting, login required, deadline
\* passed, limit reached, duplicate
C4_ReasonInStatedOrder ==
  [][\A h \in Handlers :
       CheckRejects(h) =>
         reply'.status = ReasonInStatedOrder(forms, responses, now, reply'.survey_id,
                           reply'.respondent_id, reply'.respondent_email)]_vars

\* C5: a call of submit_response that ends rejected, for an eligibility
\* reason or for an invalid answer, has inserted no row and its last step
\* leaves the stored responses and answers as they were
C5_RejectionStoresNothing ==
  [][\A h \in Handlers :
       (SubmitEnds(h) /\ reply'.status \in RejectReasons)
         => /\ rid[h] = 0
            /\ responses' = responses
            /\ answers' = answers]_vars

\* a submission was just rejected for an invalid answer while a response of
\* an earlier submission is stored
C5_Witness ==
  /\ reply.op = "submit_response"
  /\ reply.status \in ValidationReasons
  /\ DOMAIN responses # {}

\* C6: when writing an answer fails after the response row was created,
\* neither the response row nor any of its answers remains stored
C6_FailedWriteLeavesNothing ==
  [][\A h \in Handlers :
       (SubmitEnds(h) /\ reply'.status = "error")
         => (rid[h] \notin DOMAIN responses' /\ rid[h] \notin DOMAIN answers')]_vars

RECURSIVE SumFn(_, _)
\* the sum of f over the set S of arguments
SumFn(f, S) ==
  IF S = {} THEN 0
  ELSE LET k == CHOOSE x \in S : TRUE IN f[k] + SumFn(f, S \ {k})

\* the number of answers a statistics result counts over all its questions
CountedAnswers(st) ==
  SumFn([i \in 1..Len(st.questions) |->
           SumFn(st.questions[i].answer_distribution,
                 DOMAIN st.questions[i].answer_distribution)],
        1..Len(st.questions))

\* the answers of the submission that stored response r: those of the call
\* still writing them, else the rows stored
SubmittedAnswers(r) ==
  IF \E h \in Handlers : pc[h] = "answers" /\ rid[h] = r
    THEN args[CHOOSE h \in Handlers : pc[h] = "answers" /\ rid[h] = r].answers
  ELSE IF r \in DOMAIN answers THEN answers[r]
  ELSE <<>>

\* how many answers of a list carry a value that statistics count
ValuedAnswers(al) == Cardinality({i \in 1..Len(al) : AnswerValue(al[i]) # ""})

\* C7: a statistics result counts, for every response in its total, all the
\* answers of that response's submission: no response is seen half written
C7_NoPartialResponseObserved ==
  (reply.op = "get_survey_statistics" /\ reply.status = "ok")
    => CountedAnswers(reply.stats) =
         SumFn([r \in DOMAIN responses |->
                  IF responses[r].form_id = reply.survey_id
                    THEN ValuedAnswers(SubmittedAnswers(r)) ELSE 0],
               DOMAIN responses)

\* C8: a statistics result has exactly one entry per question of the survey,
\* in question order, also for a survey with no responses
C8_OneEntryPerQuestion ==
  (reply.op \in {"get_survey_statistics", "stats"} /\ reply.status = "ok")
    => LET ordered == SurveyQuestions(questions, reply.survey_id)
           entries == reply.stats.questions
       IN /\ Len(entries) = Len(ordered)
          /\ \A i \in 1..Len(entries) :
               ordered[i] = IF reply.op = "stats" THEN entries[i].question_id
                            ELSE entries[i].id

\* the answers stored in responses.csv against a question id, in file order
StoredAnswers(qid) ==
  LET found == FindByQuestionId(csv_responses, qid)
  IN [i \in 1..Len(found) |-> found[i].answer]

\* digits with at most one decimal point
IsUnsignedNumber(a) ==
  /\ \A i \in 1..Len(a) : a[i] \in AsciiDigits \cup {"."}
  /\ \E i \in 1..Len(a) : a[i] \in AsciiDigits
  /\ Cardinality({i \in 1..Len(a) : a[i] = "."}) <= 1

\* the answer is the decimal notation of a number, with or without a sign
IsNumeric(a) ==
  /\ a # <<>>
  /\ IF a[1] \in {"-", "+"} THEN IsUnsignedNumber(Tail(a)) ELSE IsUnsignedNumber(a)

\* the value of a numeric answer of at most two decimals, in hundredths
Hundredths(a) ==
  LET body == IF a[1] \in {"-", "+"} THEN Tail(a) ELSE a
      dot == IF \E i \in 1..Len(body) : body[i] = "."
               THEN CHOOSE i \in 1..Len(body) : body[i] = "." ELSE Len(body) + 1
      whole == SubSeq(body, 1, dot - 1)
      frac == SubSeq(body, dot + 1, Len(body))
      magnitude == 100 * IntOf(whole)
                   + (IF Len(frac) = 1 THEN 10 * IntOf(frac) ELSE IntOf(frac))
  IN IF a[1] = "-" THEN 0 - magnitude ELSE magnitude

\* `average`, in hundredths, is the mean of n values of sum `total`, in
\* hundredths, rounded to the nearest hundredth
IsRoundedMean(average, total, n) ==
  LET d == total - average * n
  IN IF d >= 0 THEN 2 * d <= n ELSE 2 * (0 - d) <= n

\* a result of get_survey_results is in reply
ResultsReturned == reply.op = "get_survey_results" /\ reply.status = "ok"

IsWholeNumber(a) == a # <<>> /\ \A i \in 1..Len(a) : a[i] \in AsciiDigits

C10_NoAnswersNoAverage ==
  ResultsReturned =>
    \A i \in 1..Len(reply.results) :
      LET e == reply.results[i]
      IN /\ (e.type = "rating" /\ SelectSeq(StoredAnswers(e.key), IsNumeric) = <<>>)
              => (e.count = 0 /\ "average" \notin DOMAIN e)
         /\ (e.type = "choice" /\ StoredAnswers(e.key) = <<>>)
              => DOMAIN e.distribution = {}
         /\ (e.type = "text" /\ StoredAnswers(e.key) = <<>>)
              => e.answers = <<>>

\* the indexes of the rows of responses.csv written against a question id
RowsOf(qid) == {i \in 1..Len(csv_responses) : csv_responses[i].question_id = qid}

\* C11: for a choice question the distribution maps each answer value that
\* a stored answer has to the number of stored answers with that value, a
\* value no answer has is absent, and the counts sum to the question's count
C11_DistributionCountsEachValue ==
  ResultsReturned =>
    \A i \in 1..Len(reply.results) :
      LET e == reply.results[i]
          occurring == {csv_responses[j].answer : j \in RowsOf(e.key)}
      IN e.type = "choice" =>
           /\ DOMAIN e.distribution = occurring
           /\ \A v \in occurring :
                e.distribution[v]
                  = Cardinality({j \in RowsOf(e.key) : csv_responses[j].answer = v})
           /\ SumFn(e.distribution, DOMAIN e.distribution) = e.count
           /\ e.count = Cardinality(RowsOf(e.key))

\* the answers written to responses.csv against a question id, in the order
\* in which they were appended
WrittenAnswers(qid) ==
  LET written == SelectSeq(csv_responses, LAMBDA r : r.question_id = qid)
  IN [i \in 1..Len(written) |-> written[i].answer]

\* C13: for a text question the answers list holds the stored text values
\* unmodified, one entry per submitted answer, in submission order
C13_TextAnswersUnmodifiedInOrder ==
  ResultsReturned =>
    \A i \in 1..Len(reply.results) :
      reply.results[i].type = "text"
        => reply.results[i].answers = WrittenAnswers(reply.results[i].key)

\* C14: get_survey_results of an existing survey never fails because of a
\* stored answer to a rating question that is not a number: it returns
\* results, in which such an answer is left out of count and average
C14_NonNumericRatingNeverFails ==
  reply.op = "get_survey_results" =>
    /\ reply.status # "value_error"
    /\ reply.status = "ok" =>
         \A i \in 1..Len(reply.results) :
           reply.results[i].type = "rating"
             => reply.results[i].count
                  <= Len(SelectSeq(StoredAnswers(reply.results[i].key), IsNumeric))

\* what the two implementations keep in storage
Storage == <<db, csv_surveys, csv_questions, csv_responses>>

\* the replies of the statistics operations
StatisticsOps == {"get_survey_results", "get_survey_statistics", "stats"}

OptionsGiven(request) ==
  IF request.options.none THEN 0 ELSE Len(request.options.list)

\* the question is one of the questions get_survey returns for the survey
IsQuestionOfSurvey(qrows, sid, qid) ==
  /\ ~FindSurveyRaises(qrows, sid)
  /\ \E i \in 1..Len(SurveyQuestionEntities(qrows, sid)) :
       SurveyQuestionEntities(qrows, sid)[i].id = qid

\* C16: add_question for a choice question with fewer than 2 options (none,
\* an empty list, or exactly 1) is rejected and stores no question; with 2 or
\* more options, for an existing survey and a question text that is not
\* blank, it succeeds and the question is part of the survey afterwards
C16_ChoiceNeedsTwoOptions ==
  [][ (reply'.op = "add_question" /\ reply'.request.question_type = "choice") =>
        IF OptionsGiven(reply'.request) < 2
          THEN /\ reply'.status # "ok"
               /\ csv_questions' = csv_questions
        ELSE ( /\ reply'.request.survey_id \in csv_surveys
               /\ ~IsBlank(reply'.request.text) )
               => /\ reply'.status = "ok"
                  /\ Len(csv_questions') = Len(csv_questions) + 1
                  /\ IsQuestionOfSurvey(csv_questions', reply'.request.survey_id,
                                        reply'.question_id) ]_vars

\* a choice question with two options is stored in the survey, and a request
\* to add one with exactly one option has just been rejected
C16_Witness ==
  /\ reply.op = "add_question"
  /\ reply.status = "value_error"
  /\ reply.request.question_type = "choice"
  /\ OptionsGiven(reply.request) = 1
  /\ ~IsBlank(reply.request.text)
  /\ \E i \in 1..Len(csv_questions) :
       /\ csv_questions[i].survey_id = reply.request.survey_id
       /\ csv_questions[i].question_type = "choice"
       /\ Len(OptionsFromDict(ReadField(csv_questions[i].options))) = 2

\* the operations of the CSV implementation that take a survey id
CsvSurveyOps ==
  {"get_survey", "add_question", "csv_submit_response", "get_survey_results"}

\* the survey id a reply answers
RequestedSurvey(r) ==
  IF r.op = "add_question" THEN r.request.survey_id ELSE r.survey_id

\* C18: get_survey, add_question, submit_response and get_survey_results
\* called with a survey id that does not exist fail with 'survey not found'
\* and leave the stored surveys, questions and responses unchanged; no
\* submission for such an id starts writing
C18_MissingSurveyNotFound ==
  [][ /\ ( /\ reply'.op \in CsvSurveyOps
            /\ RequestedSurvey(reply') \notin csv_surveys )
           => /\ reply'.status = "not_found"
              /\ <<csv_surveys, csv_questions, csv_responses>>'
                   = <<csv_surveys, csv_questions, csv_responses>>
      /\ (csv_job = NoJob /\ csv_job' # NoJob)
           => csv_job'.survey_id \in csv_surveys ]_vars

\* with questions and responses stored, a request for a survey id that does
\* not exist was answered 'survey not found'
C18_Witness ==
  /\ reply.op \in CsvSurveyOps
  /\ reply.status = "not_found"
  /\ RequestedSurvey(reply) \notin csv_surveys
  /\ csv_questions # <<>>
  /\ csv_responses # <<>>

\* C20: no part of a submission that contains an answer whose question id
\* is not a question of the survey submitted against is stored: every stored
\* answer is an answer to a question of its survey
C20_NoAnswerToUnknownQuestion ==
  \A i \in 1..Len(csv_responses) :
    \E k \in 1..Len(csv_questions) :
      /\ csv_questions[k].id = csv_responses[i].question_id
      /\ csv_questions[k].survey_id = csv_responses[i].survey_id

\* how often option o is selected in the stored answers to question q
Selections(q, o) ==
  Cardinality({y \in UNION {{<<x, i>> : i \in 1..Len(answers[x[1]][x[2]].json_answer)} :
                            x \in AnswerRows(answers, q)} :
                 answers[y[1][1]][y[1][2]].json_answer[y[2]] = o})

\* the options selected in the stored answers to question q
SelectedOptions(q) ==
  UNION {SeqToSet(answers[x[1]][x[2]].json_answer) : x \in AnswerRows(answers, q)}

\* the question an entry of a statistics reply is about, and its distribution
EntryQuestion(e) == IF "id" \in DOMAIN e THEN e.id ELSE e.question_id

EntryDistribution(e) ==
  IF "option_counts" \in DOMAIN e THEN e.option_counts ELSE e.answer_distribution

\* C12: in the statistics of a checkbox question every option selected in an
\* answer adds one to the count of that option: the distribution has exactly
\* the selected options, each with the number of times it was selected
C12_EachSelectedOptionCounted ==
  reply.op \in {"get_form_statistics", "get_survey_statistics", "stats"} =>
    /\ reply.status # "error"
    /\ reply.status = "ok" =>
         \A i \in 1..Len(reply.stats.questions) :
           LET e == reply.stats.questions[i]
               q == EntryQuestion(e)
           IN questions[q].question_type = "checkbox" =>
                /\ DOMAIN EntryDistribution(e) = SelectedOptions(q)
                /\ \A o \in SelectedOptions(q) :
                     EntryDistribution(e)[o] = Selections(q, o)

\* the requests that the services answer to the owner of the survey only
OwnerOnlyOps == {"get_survey_statistics", "list_survey_responses", "export_statistics"}

\* C19: statistics, the list of responses and the statistics export of a
\* survey are returned to the user who owns the survey and to nobody else:
\* any other user is refused and the reply holds no data of the survey
C19_OnlyOwnerGetsData ==
  reply.op \in OwnerOnlyOps =>
    IF reply.survey_id \in DOMAIN forms
         /\ forms[reply.survey_id].owner_id = reply.user_id
      THEN reply.status = "ok"
      ELSE /\ reply.status = "forbidden"
           /\ DOMAIN reply = {"op", "status", "survey_id", "user_id"}

\* a user who does not own the survey asked for its responses, of which
\* there is one with an answer stored, and was refused
C19_Witness ==
  /\ reply.op = "list_survey_responses"
  /\ reply.status = "forbidden"
  /\ reply.survey_id \in DOMAIN forms
  /\ reply.user_id # forms[reply.survey_id].owner_id
  /\ \E r \in DOMAIN responses :
       responses[r].form_id = reply.survey_id /\ r \in DOMAIN answers

\* C17: every stored question and response refers to an existing survey and
\* every stored answer to an existing response; in particular no answer of a
\* deleted response remains stored
C17_NoOrphanRows ==
  /\ \A q \in DOMAIN questions : questions[q].form_id \in DOMAIN forms
  /\ \A r \in DOMAIN responses : responses[r].form_id \in DOMAIN forms
  /\ \A r \in DOMAIN answers : r \in DOMAIN responses

\* the step is handler h running _validate_answers on its answers
Validates(h) == pc[h] = "validate" /\ pc'[h] # "validate"

\* the step is handler h passing _validate_answers
ValidationPasses(h) == pc[h] = "validate" /\ pc'[h] = "create"

\* the step is handler h failing _validate_answers with the error status
ValidationRejects(h, status) ==
  pc[h] = "validate" /\ pc'[h] = "idle" /\ reply'.status = status

\* some value slot of the answer is populated
IsPopulated(a) ==
  \/ a.text_answer # NoText
  \/ a.number_answer # NoNumber
  \/ a.json_answer # <<>>
  \/ a.file_url # NoText

\* C21: every accepted submission carries a populated value for each required
\* question of the survey; one that has an unpopulated answer to a required
\* question, or no answer entry for it, does not pass validation
C21_RequiredQuestionsAnswered ==
  [][ \A h \in Handlers :
        ValidationPasses(h) =>
          \A q \in DOMAIN questions :
            (questions[q].form_id = args[h].survey_id /\ questions[q].required)
              => \E i \in 1..Len(args[h].answers) :
                   /\ args[h].answers[i].question_id = q
                   /\ IsPopulated(args[h].answers[i]) ]_vars

\* a value slot of answer a is populated that does not belong to the type of
\* question q: text questions take the text slot, a scale the number slot, a
\* checkbox the JSON slot
SlotMismatch(q, a) ==
  \/ q.question_type \in TextTypes
       /\ (a.number_answer # NoNumber \/ a.json_answer # <<>>)
  \/ q.question_type = "scale"
       /\ (a.text_answer # NoText \/ a.json_answer # <<>>)
  \/ q.question_type = "checkbox"
       /\ (a.text_answer # NoText \/ a.number_answer # NoNumber)

\* C22: submit_response rejects every answer whose populated value slot does
\* not correspond to the type of its question, for every question type: no
\* submission holding such an answer passes validation
C22_SlotMismatchRejected ==
  [][ \A h \in Handlers :
        ValidationPasses(h) =>
          \A i \in 1..Len(args[h].answers) :
            LET a == args[h].answers[i] IN
              a.question_id \in DOMAIN questions
                => ~SlotMismatch(questions[a.question_id], a) ]_vars

\* the question types answered by choosing among the options of the question
ChoiceLike == {"multiple_choice", "dropdown", "checkbox"}

\* the value or values an answer supplies to a choice-like question
SuppliedValues(a) ==
  IF a.json_answer # <<>> THEN SeqToSet(a.json_answer)
  ELSE IF a.text_answer # NoText THEN {a.text_answer}
  ELSE {}

\* answer a is to a choice-like question and supplies a value that is not an
\* option of the question
OutsideOptions(a) ==
  /\ a.question_id \in DOMAIN questions
  /\ questions[a.question_id].question_type \in ChoiceLike
  /\ ~(SuppliedValues(a) \subseteq SeqToSet(questions[a.question_id].options))

\* C23: an answer to a choice-like question whose values are not all options
\* of the question is rejected, so no submission holding one passes
\* validation; and an invalid-option error is only given to a submission
\* holding such an answer
C23_ChoiceValuesWithinOptions ==
  [][ \A h \in Handlers :
        /\ ValidationPasses(h) =>
             \A i \in 1..Len(args[h].answers) : ~OutsideOptions(args[h].answers[i])
        /\ ValidationRejects(h, "invalid_option") =>
             \E i \in 1..Len(args[h].answers) : OutsideOptions(args[h].answers[i]) ]_vars

\* the positions of the invalid answers of the submission of handler h
InvalidEntries(h) ==
  { i \in 1..Len(args[h].answers) :
      ValidateAnswer(questions,
                     {q \in DOMAIN questions : questions[q].form_id = args[h].survey_id},
                     args[h].answers[i]) # "ok" }

\* the error of the answer at position i of the submission of handler h
EntryError(h, i) ==
  ValidateAnswer(questions,
                 {q \in DOMAIN questions : questions[q].form_id = args[h].survey_id},
                 args[h].answers[i])

\* the order value of the question answered at position i
EntryOrder(h, i) == questions[args[h].answers[i].question_id].order

\* C26: when a submission holds several invalid answers, all to questions of
\* the survey, the error reported is that of the invalid answer whose
\* question comes first in the question order of the survey, wherever the
\* answers stand in the request
C26_FirstErrorInQuestionOrder ==
  [][ \A h \in Handlers :
        ( /\ pc[h] = "validate" /\ pc'[h] = "idle"
          /\ \A i \in InvalidEntries(h) :
               args[h].answers[i].question_id \in DOMAIN questions )
        => \E i \in InvalidEntries(h) :
             /\ \A k \in InvalidEntries(h) : EntryOrder(h, i) <= EntryOrder(h, k)
             /\ reply'.status = EntryError(h, i) ]_vars

\* C24: after any sequence of add_question and delete_question calls on a
\* survey, no two questions of the survey have the same order value
C24_OrderUniqueWithinSurvey ==
  \A p, q \in DOMAIN questions :
    (p # q /\ questions[p].form_id = questions[q].form_id)
      => questions[p].order # questions[q].order

\* the step is a submission to survey sid ending in its eligibility checks
EligibilityRejects(h, sid) ==
  /\ pc[h] = "idle" /\ pc'[h] = "idle"
  /\ reply' # reply
  /\ reply'.op = "submit_response"
  /\ reply'.handler = h
  /\ reply'.survey_id = sid

\* C25: in a sequential run of submit_response and delete_response on a survey
\* with a fixed max_responses = N, a submission passes the limit check only
\* while fewer than N responses are stored and the stored count never exceeds
\* N; a submission made when the count is N or more is rejected with
\* "maximum responses" and stores nothing
C25_LimitHoldsSequentially ==
  [][ \A sid \in DOMAIN forms :
        LET N == forms[sid].max_responses IN
          N # 0 =>
            /\ CountSurveyResponses(responses', sid) <= N
            /\ \A h \in Handlers :
                 /\ (pc[h] = "idle" /\ pc'[h] # "idle" /\ args'[h].survey_id = sid)
                      => CountSurveyResponses(responses, sid) < N
                 /\ (EligibilityRejects(h, sid)
                       /\ CountSurveyResponses(responses, sid) >= N)
                      => /\ reply'.status = "limit_reached"
                         /\ UNCHANGED db ]_vars

\* a submission has just been accepted after a deletion made room for it:
\* the survey holds as many responses as its limit allows, and more responses
\* than that have been created
C25_Witness ==
  /\ forms[1].max_responses # 0
  /\ CountSurveyResponses(responses, 1) = forms[1].max_responses
  /\ nextResponseId > forms[1].max_responses + 1
  /\ reply.op = "submit_response" /\ reply.status = "ok"

\* C27: a submit_response against survey A, whatever its answers, leaves
\* every per-question statistic of every other survey B unchanged: the rows it
\* saves do not change the results get_survey_results computes for B
C27_OtherSurveysResultsUnchanged ==
  [][ (csv_job # NoJob /\ csv_responses' # csv_responses) =>
        \A b \in csv_surveys \ {csv_job.survey_id} :
          /\ ResultsRaise(csv_questions', csv_responses', b)
               = ResultsRaise(csv_questions, csv_responses, b)
          /\ SurveyResults(csv_questions', csv_responses', b)
               = SurveyResults(csv_questions, csv_responses, b) ]_vars

\* C28: get_survey_statistics, update_survey and delete_survey called with a
\* survey id that does not resolve fail with survey-not-found, not with an
\* authorization error
C28_MissingSurveyIsNotFound ==
  [][ ( /\ reply'.op \in {"get_survey_statistics", "update_survey", "delete_survey"}
        /\ ~SurveyExists(forms, reply'.survey_id) )
      => reply'.status = "not_found" ]_vars

\* C29: get_response returns a stored response only to the owner of its
\* survey or to the respondent who submitted it; every other caller, a caller
\* with no authenticated user included, is refused
C29_ResponseOnlyForOwnerOrRespondent ==
  (reply.op = "get_response" /\ reply.status = "ok") =>
    /\ reply.user_id # NoUser
    /\ \/ (reply.response.form_id \in DOMAIN forms
           /\ forms[reply.response.form_id].owner_id = reply.user_id)
       \/ reply.response.respondent_id = reply.user_id

\* the rows update_response_answers stores for the answers al of response r
SuppliedRows(r, al) == [i \in 1..Len(al) |-> AnswerRow(r, al[i])]

\* C30: an update_response by a user who is not the respondent, or with
\* answers that fail validation, leaves the stored answers unchanged; after a
\* successful update by the respondent the stored answers of the response are
\* exactly the supplied answers
C30_UpdateReplacesAnswersOrNothing ==
  [][ (reply' # reply /\ reply'.op = "update_response") =>
        /\ reply'.status \in {"forbidden"} \cup ValidationReasons
             => UNCHANGED answers
        /\ reply'.status = "ok"
             => AnswersOf(answers', reply'.response_id)
                  = SuppliedRows(reply'.response_id, reply'.answers) ]_vars

====
